---- MODULE Spec2Model ----
(***************************************************************************)
(* Keepalive stream adaptation of worker.js: handleKeepAliveStream opens   *)
(* a TransformStream to the client, arms a heartbeat interval and launches *)
(* processApiRequest as a detached async task.  Every await of the task is *)
(* a suspension point; timer ticks, the client's cancel and the task's     *)
(* continuations interleave there (single-threaded event loop).            *)
(***************************************************************************)
EXTENDS Integers, Sequences, FiniteSets, TLC

\* Requests in flight; each call of handleKeepAliveStream has its own closure.
Req == {"r1", "r2"}

\* Longest inbound path (in tokens) and longest key parameter (in characters) given
\* to the URL preparation; the number of values Math.random() is drawn from.
MaxPathLen == 3
MaxKeyLen == 5
RandSteps == 4

\* Heartbeat ticks modelled per request.
MaxTicks == 2
\* Chunks the upstream event-stream body delivers before end-of-body.
MaxChunks == 2

\* Path tokens: the two operation names are distinct strings, neither occurs inside
\* the other or overlaps itself, so a path is a sequence of tokens.
SEG == "/v1beta/models/m"
STREAM_OP == ":streamGenerateContent"
GENERATE_OP == ":generateContent"

\* Inbound requests the router is given.
Methods == {"OPTIONS", "POST"}
RouterPaths == {<<SEG>>, <<SEG, STREAM_OP>>, <<STREAM_OP, SEG>>}
\* The KEEPALIVE global: not defined, or a string.
EnvValues == {"undefined", "false", "true"}

VARIABLES
  envKeepalive, \* the KEEPALIVE global of the deployment
  method,     \* per request: request.method
  path,       \* per request: url.pathname
  result,     \* per request: what the upstream call of the task settled with
  hpc,        \* per request: "received" | "returned" | "preflight" | "proxying"
              \*   | "forwarded" | "threw" (position of the fetch handler)
  pc,         \* per request: the await processApiRequest is suspended at
  flag,       \* isProcessingComplete
  timerArmed, \* the interval of heartbeatInterval is active
  stream,     \* transformStream: "none" | "open" | "cancelled" | "closed"
  out,        \* frames enqueued on the readable side, in order
  wlog,       \* calls the task made on the writer: frames passed to write, "close"
  calls,      \* number of upstream fetch calls issued
  resolved,   \* the upstream fetch promise has settled
  chunks,     \* chunks read from the upstream event-stream body
  failed,     \* the catch block of processApiRequest has been entered
  thrown,     \* an exception was raised inside the catch block
  settled,    \* the task's promise: "pending" | "fulfilled" | "rejected"
  reason,     \* the value the client cancelled with: "none" | "error" | "nullish"
  \* the URL preparation at the head of processApiRequest, taken on its own
  upc,        \* "idle" | "start" | "rewritten" | "prepared"
  urlPath,    \* originalUrl.pathname, a sequence of path tokens
  urlKey,     \* the inbound 'key' parameter: [present, val], val a sequence of characters
  targetPath, \* nonStreamingUrl.pathname after the replace
  targetKey   \* the 'key' parameter of the target URL

requestVars == <<envKeepalive, method, path>>
urlVars == <<upc, urlPath, urlKey, targetPath, targetKey>>
vars == <<envKeepalive, method, path, result, hpc, pc, flag, timerArmed, stream, out, wlog, calls,
          resolved, chunks, failed, thrown, settled, reason, urlVars>>

HEARTBEAT == "hb"
ERR_UPSTREAM == "err_up"
ERR_INTERNAL == "err_int"
CHUNK == "chunk"
PAYLOAD == "payload"
DONE == "done"
CLOSE == "close"

Terminal == {ERR_UPSTREAM, ERR_INTERNAL, CHUNK, PAYLOAD, DONE}
WriteSites == {"wErr", "wChunk", "wJson", "wDone", "wCatch"}
\* the same awaits once the write is fulfilled and its continuation is due
Ack(site) ==
  CASE site = "wErr" -> "okErr"
    [] site = "wChunk" -> "okChunk"
    [] site = "wJson" -> "okJson"
    [] site = "wDone" -> "okDone"
    [] site = "wCatch" -> "okCatch"
AckSites == {Ack(site) : site \in WriteSites}

Last(s) == s[Len(s)]
Count(s, x) == Cardinality({i \in 1..Len(s) : s[i] = x})
Has(s, x) == \E i \in 1..Len(s) : s[i] = x

\* const KEEPALIVE_ENABLED = typeof KEEPALIVE !== 'undefined' ? KEEPALIVE !== 'false' : true
KeepaliveEnabled(env) == IF env # "undefined" THEN env # "false" ELSE TRUE
KEEPALIVE_ENABLED == KeepaliveEnabled(envKeepalive)

\* url.pathname.endsWith(':streamGenerateContent')
EndsWithStreamOp(p) == Len(p) > 0 /\ p[Len(p)] = STREAM_OP

\* fetch(request, env): which handler the request is dispatched to
RouteIgnoringKeepalive(m, p, enabled) ==
  IF m = "OPTIONS" THEN "preflight"
  ELSE IF EndsWithStreamOp(p) THEN "adapter"
  ELSE "proxy"
Route(m, p, enabled) ==
  IF m = "OPTIONS" THEN "preflight"
  ELSE IF enabled /\ EndsWithStreamOp(p) THEN "adapter"
  ELSE "proxy"

\* the dispatch of request r
Dispatch(r) == Route(method[r], path[r], KeepaliveEnabled(envKeepalive))

\* params.get('key') of a URL without the parameter
AbsentKey == [present |-> FALSE, val |-> <<>>]

RequestInit ==
  /\ envKeepalive \in EnvValues
  /\ method \in [Req -> Methods]
  /\ path \in [Req -> RouterPaths]
  /\ result = [r \in Req |-> "none"]
  /\ hpc = [r \in Req |-> "received"]
  /\ pc = [r \in Req |-> "idle"]
  /\ flag = [r \in Req |-> FALSE]
  /\ timerArmed = [r \in Req |-> FALSE]
  /\ stream = [r \in Req |-> "none"]
  /\ out = [r \in Req |-> <<>>]
  /\ wlog = [r \in Req |-> <<>>]
  /\ calls = [r \in Req |-> 0]
  /\ resolved = [r \in Req |-> FALSE]
  /\ chunks = [r \in Req |-> 0]
  /\ failed = [r \in Req |-> FALSE]
  /\ thrown = [r \in Req |-> FALSE]
  /\ settled = [r \in Req |-> "pending"]
  /\ reason = [r \in Req |-> "none"]

Init ==
  /\ RequestInit
  /\ upc = "idle"
  /\ urlPath = <<>>
  /\ urlKey = AbsentKey
  /\ targetPath = <<>>
  /\ targetKey = AbsentKey

----------------------------------------------------------------------------
\* Building blocks of processApiRequest

\* onComplete(); clearInterval(heartbeatInterval)
MarkCompleteSkipped(r) == UNCHANGED <<flag, timerArmed>>
MarkCompleteFlagOnly(r) ==
  /\ flag' = [flag EXCEPT ![r] = TRUE]
  /\ UNCHANGED timerArmed
MarkCompleteGlobal(r) ==
  /\ flag' = [q \in Req |-> TRUE]
  /\ timerArmed' = [timerArmed EXCEPT ![r] = FALSE]
MarkComplete(r) ==
  /\ flag' = [flag EXCEPT ![r] = TRUE]
  /\ timerArmed' = [timerArmed EXCEPT ![r] = FALSE]

\* await writer.write(encoder.encode(frame)): the call is made, the task suspends
WriterWrite(r, frame, site) ==
  /\ wlog' = [wlog EXCEPT ![r] = Append(@, frame)]
  /\ pc' = [pc EXCEPT ![r] = site]

\* fetch(forwardRequest): the single upstream call is issued, the task suspends
IssueFetch(r) ==
  /\ calls' = [calls EXCEPT ![r] = @ + 1]
  /\ pc' = [pc EXCEPT ![r] = "fetching"]

\* finally { try { await writer.close() } catch { log } }: close is called; on an
\* open stream the flush closes the readable side, on an errored one it rejects
Finally(r) ==
  /\ wlog' = [wlog EXCEPT ![r] = Append(@, CLOSE)]
  /\ stream' = [stream EXCEPT ![r] = IF @ = "open" THEN "closed" ELSE @]
  /\ pc' = [pc EXCEPT ![r] = "closing"]

\* What a rejected await raises into the catch block: a value with properties (an
\* Error), or undefined / null, on which reading error.message throws.
Caught == {"error", "nullish"}

\* catch (error) { onComplete(); clearInterval(); errorData = {... error.message ...};
\* await writer.write(errorFrame) }: with a nullish error the read of error.message
\* throws before the write, the finally block runs and the exception leaves the function
CatchWithoutMark(r, e) ==
  /\ UNCHANGED <<flag, timerArmed>>
  /\ failed' = [failed EXCEPT ![r] = TRUE]
  /\ IF e = "nullish"
       THEN /\ thrown' = [thrown EXCEPT ![r] = TRUE]
            /\ Finally(r)
       ELSE /\ WriterWrite(r, ERR_INTERNAL, "wCatch")
            /\ UNCHANGED <<thrown, stream>>
Catch(r, e) ==
  /\ MarkComplete(r)
  /\ failed' = [failed EXCEPT ![r] = TRUE]
  /\ IF e = "nullish"
       THEN /\ thrown' = [thrown EXCEPT ![r] = TRUE]
            /\ Finally(r)
       ELSE /\ WriterWrite(r, ERR_INTERNAL, "wCatch")
            /\ UNCHANGED <<thrown, stream>>

\* the write inside the catch block rejects: the exception leaves the catch block,
\* the finally block still runs, and the exception then leaves the function
CatchWriteRejectedNoFinally(r) ==
  /\ thrown' = [thrown EXCEPT ![r] = TRUE]
  /\ pc' = [pc EXCEPT ![r] = "closing"]
  /\ UNCHANGED <<wlog, stream>>
CatchWriteRejected(r) ==
  /\ thrown' = [thrown EXCEPT ![r] = TRUE]
  /\ Finally(r)

----------------------------------------------------------------------------
\* handleKeepAliveStream: synchronous, so one step.  The TransformStream is
\* constructed (start arms the interval), processApiRequest runs up to its first
\* await, and the Response carrying the readable side is returned.
ReturnResponseAwaitingTask(r) == hpc' = [hpc EXCEPT ![r] = "awaiting"]
ReturnResponse(r) == hpc' = [hpc EXCEPT ![r] = "returned"]

HandleKeepAliveStream(r) ==
  /\ hpc[r] = "received"
  /\ Dispatch(r) = "adapter"
  /\ stream' = [stream EXCEPT ![r] = "open"]
  /\ timerArmed' = [timerArmed EXCEPT ![r] = TRUE]
  \* request.body ? await request.clone().arrayBuffer() : no await before the fetch
  /\ \E hasBody \in BOOLEAN :
       IF hasBody THEN /\ pc' = [pc EXCEPT ![r] = "buffering"]
                       /\ UNCHANGED calls
                  ELSE IssueFetch(r)
  /\ ReturnResponse(r)
  /\ UNCHANGED <<result, flag, out, wlog, resolved, chunks, failed, thrown, settled, reason>>

\* return handleOptions(): the static 204 response
HandleOptions(r) ==
  /\ hpc[r] = "received"
  /\ Dispatch(r) = "preflight"
  /\ hpc' = [hpc EXCEPT ![r] = "preflight"]
  /\ UNCHANGED <<result, pc, flag, timerArmed, stream, out, wlog, calls,
                 resolved, chunks, failed, thrown, settled, reason>>

\* return handleStandardProxy(request, env): the forwarded request is issued and awaited
HandleStandardProxy(r) ==
  /\ hpc[r] = "received"
  /\ Dispatch(r) = "proxy"
  /\ hpc' = [hpc EXCEPT ![r] = "proxying"]
  /\ calls' = [calls EXCEPT ![r] = @ + 1]
  /\ UNCHANGED <<result, pc, flag, timerArmed, stream, out, wlog,
                 resolved, chunks, failed, thrown, settled, reason>>

\* await fetch(forwardRequest) of handleStandardProxy: the upstream response is
\* returned with the CORS headers set, or the rejection leaves the handler
ProxySettles(r) ==
  /\ hpc[r] = "proxying"
  /\ resolved' = [resolved EXCEPT ![r] = TRUE]
  /\ \E ok \in BOOLEAN : hpc' = [hpc EXCEPT ![r] = IF ok THEN "forwarded" ELSE "threw"]
  /\ UNCHANGED <<result, pc, flag, timerArmed, stream, out, wlog, calls,
                 chunks, failed, thrown, settled, reason>>

\* setInterval callback
HeartbeatTick(r) ==
  /\ timerArmed[r]
  /\ Count(out[r], HEARTBEAT) < MaxTicks
  /\ IF ~flag[r]
       THEN IF stream[r] = "open"
              THEN /\ out' = [out EXCEPT ![r] = Append(@, HEARTBEAT)]
                   /\ UNCHANGED timerArmed
              ELSE /\ timerArmed' = [timerArmed EXCEPT ![r] = FALSE]
                   /\ UNCHANGED out
       ELSE UNCHANGED <<out, timerArmed>>
  /\ UNCHANGED <<result, hpc, pc, flag, stream, wlog, calls, resolved, chunks,
                 failed, thrown, settled, reason>>

\* cancel(reason) of the transformer: the client cancelled the readable side;
\* the writable side is errored with the reason, so pending and later writes
\* reject with it
CancelOnlyLogs(r) ==
  /\ hpc[r] = "returned"
  /\ stream[r] = "open"
  /\ stream' = [stream EXCEPT ![r] = "cancelled"]
  /\ \E e \in Caught : reason' = [reason EXCEPT ![r] = e]
  /\ UNCHANGED <<result, hpc, pc, flag, timerArmed, out, wlog, calls, resolved,
                 chunks, failed, thrown, settled>>
CancelResetsFlag(r) ==
  /\ hpc[r] = "returned"
  /\ stream[r] = "open"
  /\ timerArmed' = [timerArmed EXCEPT ![r] = FALSE]
  /\ flag' = [flag EXCEPT ![r] = FALSE]
  /\ stream' = [stream EXCEPT ![r] = "cancelled"]
  /\ \E e \in Caught : reason' = [reason EXCEPT ![r] = e]
  /\ UNCHANGED <<result, hpc, pc, out, wlog, calls, resolved, chunks, failed,
                 thrown, settled>>
Cancel(r) ==
  /\ hpc[r] = "returned"
  /\ stream[r] = "open"
  /\ timerArmed' = [timerArmed EXCEPT ![r] = FALSE]
  /\ flag' = [flag EXCEPT ![r] = TRUE]
  /\ stream' = [stream EXCEPT ![r] = "cancelled"]
  /\ \E e \in Caught : reason' = [reason EXCEPT ![r] = e]
  /\ UNCHANGED <<result, hpc, pc, out, wlog, calls, resolved, chunks, failed,
                 thrown, settled>>

----------------------------------------------------------------------------
\* Continuations of processApiRequest, one per await

\* await request.clone().arrayBuffer()
BodyBuffered(r) ==
  /\ pc[r] = "buffering"
  /\ \/ /\ IssueFetch(r)
        /\ UNCHANGED <<flag, timerArmed, wlog, failed, thrown, stream>>
     \/ /\ \E e \in Caught : Catch(r, e)
        /\ UNCHANGED calls
  /\ UNCHANGED <<result, hpc, out, resolved, chunks, settled, reason>>

\* What the upstream call settles with: a rejection, a non-2xx response, a 2xx
\* event-stream response, a 2xx response of another content type.
Results == {"reject", "non2xx", "sse", "json"}

\* if (!response.ok) ... else if (contentType.includes('text/event-stream')) ... else:
\* the await the task suspends at next
ClassifyIgnoringStatus(res) ==
  CASE res = "non2xx" -> "parsing"
    [] res = "sse" -> "reading"
    [] res = "json" -> "parsing"
Classify(res) ==
  CASE res = "non2xx" -> "errText"
    [] res = "sse" -> "reading"
    [] res = "json" -> "parsing"

\* await fetch(forwardRequest)
UpstreamSettlesRetrying(r) ==
  /\ pc[r] = "fetching"
  /\ resolved' = [resolved EXCEPT ![r] = TRUE]
  /\ \E res \in Results :
       /\ result' = [result EXCEPT ![r] = res]
       /\ IF res = "reject"
            THEN IF calls[r] < 2
                   THEN /\ IssueFetch(r)
                        /\ UNCHANGED <<flag, timerArmed, wlog, failed, thrown, stream>>
                   ELSE /\ \E e \in Caught : Catch(r, e)
                        /\ UNCHANGED calls
            ELSE /\ MarkComplete(r)
                 /\ pc' = [pc EXCEPT ![r] = Classify(res)]
                 /\ UNCHANGED <<wlog, failed, calls, thrown, stream>>
  /\ UNCHANGED <<hpc, out, chunks, settled, reason>>
UpstreamSettles(r) ==
  /\ pc[r] = "fetching"
  /\ resolved' = [resolved EXCEPT ![r] = TRUE]
  /\ \E res \in Results :
       /\ result' = [result EXCEPT ![r] = res]
       /\ IF res = "reject"
            THEN \E e \in Caught : Catch(r, e)
            ELSE /\ MarkComplete(r)
                 /\ pc' = [pc EXCEPT ![r] = Classify(res)]
                 /\ UNCHANGED <<wlog, failed, thrown, stream>>
  /\ UNCHANGED <<hpc, out, calls, chunks, settled, reason>>

\* await response.text()
ErrTextRead(r) ==
  /\ pc[r] = "errText"
  /\ \/ /\ WriterWrite(r, ERR_UPSTREAM, "wErr")
        /\ UNCHANGED <<flag, timerArmed, failed, thrown, stream>>
     \/ \E e \in Caught : Catch(r, e)
  /\ UNCHANGED <<result, hpc, out, calls, resolved, chunks, settled, reason>>

\* await response.json()
JsonParsedUnwrapped(r) ==
  /\ pc[r] = "parsing"
  /\ \/ /\ WriterWrite(r, CHUNK, "wJson")
        /\ UNCHANGED <<flag, timerArmed, failed, thrown, stream>>
     \/ \E e \in Caught : Catch(r, e)
  /\ UNCHANGED <<result, hpc, out, calls, resolved, chunks, settled, reason>>
JsonParsed(r) ==
  /\ pc[r] = "parsing"
  /\ \/ /\ WriterWrite(r, PAYLOAD, "wJson")
        /\ UNCHANGED <<flag, timerArmed, failed, thrown, stream>>
     \/ \E e \in Caught : Catch(r, e)
  /\ UNCHANGED <<result, hpc, out, calls, resolved, chunks, settled, reason>>

\* await reader.read(): a chunk, end-of-body, or a failing read
ReaderRead(r) ==
  /\ pc[r] = "reading"
  /\ \/ /\ chunks[r] < MaxChunks
        /\ chunks' = [chunks EXCEPT ![r] = @ + 1]
        /\ WriterWrite(r, CHUNK, "wChunk")
        /\ UNCHANGED <<flag, timerArmed, failed, thrown, stream>>
     \/ /\ WriterWrite(r, DONE, "wDone")
        /\ UNCHANGED <<flag, timerArmed, failed, chunks, thrown, stream>>
     \/ /\ \E e \in Caught : Catch(r, e)
        /\ UNCHANGED chunks
  /\ UNCHANGED <<result, hpc, out, calls, resolved, settled, reason>>

\* The client reads the frame of the pending write: the transform enqueues it on the
\* readable side, the read is answered and the promise of writer.write is fulfilled.
\* The continuation of the read runs before the continuation of the write, so the
\* client can cancel between the two.
ClientRead(r) ==
  /\ pc[r] \in WriteSites
  /\ stream[r] = "open"
  /\ out' = [out EXCEPT ![r] = Append(@, Last(wlog[r]))]
  /\ pc' = [pc EXCEPT ![r] = Ack(pc[r])]
  /\ UNCHANGED <<result, hpc, flag, timerArmed, stream, wlog, calls, resolved,
                 chunks, failed, thrown, settled, reason>>

\* the continuation of await writer.write(...): after a fulfilled write the task goes
\* on whatever the stream has become since; a write pending on an errored writable
\* side rejects with the cancel reason
WriteSettles(r) ==
  /\ \/ /\ pc[r] \in AckSites
        /\ CASE pc[r] \in {Ack("wErr"), Ack("wJson")} ->
                  /\ WriterWrite(r, DONE, "wDone")
                  /\ UNCHANGED stream
             [] pc[r] = Ack("wChunk") ->
                  /\ pc' = [pc EXCEPT ![r] = "reading"]
                  /\ UNCHANGED <<wlog, stream>>
             [] pc[r] \in {Ack("wDone"), Ack("wCatch")} -> Finally(r)
        /\ UNCHANGED <<flag, timerArmed, failed, thrown>>
     \/ /\ pc[r] \in WriteSites
        /\ stream[r] # "open"
        /\ IF pc[r] = "wCatch"
             THEN /\ CatchWriteRejected(r)
                  /\ UNCHANGED <<flag, timerArmed, failed>>
             ELSE Catch(r, reason[r])
  /\ UNCHANGED <<result, hpc, out, calls, resolved, chunks, settled, reason>>

\* await writer.close() inside the inner try: a rejection is logged; the task's
\* promise then settles, rejected when the catch block itself threw
CloseSettles(r) ==
  /\ pc[r] = "closing"
  /\ pc' = [pc EXCEPT ![r] = "settled"]
  /\ settled' = [settled EXCEPT ![r] = IF thrown[r] THEN "rejected" ELSE "fulfilled"]
  /\ UNCHANGED <<result, hpc, flag, timerArmed, stream, out, wlog, calls,
                 resolved, chunks, failed, thrown, reason>>

\* handleKeepAliveStream, its callbacks and the continuations of its task
AdapterStep(r) ==
  \/ HandleKeepAliveStream(r)
  \/ HeartbeatTick(r)
  \/ Cancel(r)
  \/ BodyBuffered(r)
  \/ UpstreamSettles(r)
  \/ ErrTextRead(r)
  \/ JsonParsed(r)
  \/ ReaderRead(r)
  \/ ClientRead(r)
  \/ WriteSettles(r)
  \/ CloseSettles(r)

Next ==
  /\ \E r \in Req :
       \/ HandleOptions(r)
       \/ HandleStandardProxy(r)
       \/ ProxySettles(r)
       \/ AdapterStep(r)
  /\ UNCHANGED <<requestVars, urlVars>>

Spec == Init /\ [][Next]_vars

\* The steps of one request's task.  The upstream call settles, and a pending write
\* settles because the client keeps reading or cancels.
TaskStep(r) ==
  /\ \/ HandleKeepAliveStream(r)
     \/ BodyBuffered(r)
     \/ UpstreamSettles(r)
     \/ ErrTextRead(r)
     \/ JsonParsed(r)
     \/ ReaderRead(r)
     \/ ClientRead(r)
     \/ WriteSettles(r)
     \/ CloseSettles(r)
  /\ UNCHANGED <<requestVars, urlVars>>

\* Liveness is a matter of one task's own steps: the behaviours checked hold one
\* adapted request at a time, beside a preflight or proxied one.
FairInit ==
  /\ Init
  /\ Cardinality({r \in Req : Dispatch(r) = "adapter"}) <= 1

FairSpec == FairInit /\ [][Next]_vars /\ \A r \in Req : WF_vars(TaskStep(r))

----------------------------------------------------------------------------
\* The URL preparation of processApiRequest: the path rewrite and prepareTargetUrl

PathTokens == {SEG, STREAM_OP, GENERATE_OP}
\* the paths processApiRequest is called with: the router lets through those that
\* end with the streaming operation
StreamingPaths ==
  {p \in UNION {[1..n -> PathTokens] : n \in 1..MaxPathLen} : EndsWithStreamOp(p)}

KeyChars == {"a", " ", ","}
KeyValues == UNION {[1..n -> KeyChars] : n \in 0..MaxKeyLen}
Keys == {AbsentKey} \cup {[present |-> TRUE, val |-> v] : v \in KeyValues}
\* Math.random() is rnd / RandSteps, in [0, 1)
Rand == 0..(RandSteps - 1)

\* pathname.replace(':streamGenerateContent', ':generateContent'): a string pattern
\* replaces the first occurrence
FirstStreamOp(p) == CHOOSE i \in 1..Len(p) : p[i] = STREAM_OP /\ \A j \in 1..(i - 1) : p[j] # STREAM_OP
ReplaceFirst(p) ==
  IF \E i \in 1..Len(p) : p[i] = STREAM_OP
    THEN [p EXCEPT ![FirstStreamOp(p)] = GENERATE_OP]
    ELSE p

\* apiKeys.includes(',')
IncludesComma(v) == \E i \in 1..Len(v) : v[i] = ","

\* apiKeys.split(',')
RECURSIVE SplitComma(_)
SplitComma(v) ==
  IF ~IncludesComma(v)
    THEN <<v>>
    ELSE LET i == CHOOSE k \in 1..Len(v) : v[k] = "," /\ \A j \in 1..(k - 1) : v[j] # ","
         IN <<SubSeq(v, 1, i - 1)>> \o SplitComma(SubSeq(v, i + 1, Len(v)))

\* k.trim()
RECURSIVE Trim(_)
TrimNothing(t) == t
Trim(t) ==
  IF t # <<>> /\ t[1] = " " THEN Trim(Tail(t))
  ELSE IF t # <<>> /\ t[Len(t)] = " " THEN Trim(SubSeq(t, 1, Len(t) - 1))
  ELSE t

\* apiKeys.split(',').map(k => k.trim()).filter(Boolean)
KeyArray(v) ==
  LET parts == SplitComma(v)
      trimmed == [i \in 1..Len(parts) |-> Trim(parts[i])]
  IN SelectSeq(trimmed, LAMBDA t : t # <<>>)

\* Math.floor(Math.random() * keyArray.length), 0-based
PickIndex(rnd, len) == (rnd * len) \div RandSteps

\* the 'key' parameter after prepareTargetUrl
SelectKey(k, rnd) ==
  IF k.present /\ k.val # <<>> /\ IncludesComma(k.val)
    THEN LET keyArray == KeyArray(k.val)
         IN IF Len(keyArray) > 0
              THEN [present |-> TRUE, val |-> keyArray[PickIndex(rnd, Len(keyArray)) + 1]]
              ELSE k
    ELSE k

UrlInit ==
  /\ RequestInit
  /\ envKeepalive = "undefined"
  /\ \A r \in Req : method[r] = "POST" /\ path[r] = <<SEG, STREAM_OP>>
  /\ upc = "start"
  /\ urlPath \in StreamingPaths
  /\ urlKey \in Keys
  /\ targetPath = <<>>
  /\ targetKey = AbsentKey

\* nonStreamingUrl.pathname = nonStreamingUrl.pathname.replace(...)
RewritePath ==
  /\ upc = "start"
  /\ targetPath' = ReplaceFirst(urlPath)
  /\ upc' = "rewritten"
  /\ UNCHANGED <<urlPath, urlKey, targetKey>>

\* const targetUrl = prepareTargetUrl(nonStreamingUrl)
PrepareTargetUrl ==
  /\ upc = "rewritten"
  /\ \E rnd \in Rand : targetKey' = SelectKey(urlKey, rnd)
  /\ upc' = "prepared"
  /\ UNCHANGED <<urlPath, urlKey, targetPath>>

UrlNext ==
  /\ RewritePath \/ PrepareTargetUrl
  /\ UNCHANGED <<requestVars, result, hpc, pc, flag, timerArmed, stream, out,
                 wlog, calls, resolved, chunks, failed, thrown, settled, reason>>

UrlSpec == UrlInit /\ [][UrlNext]_vars

----------------------------------------------------------------------------
\* Properties

\* the request is one the fetch handler hands to handleKeepAliveStream
Adapted(r) == Dispatch(r) = "adapter"

HasTerminal(s) == \E i \in 1..Len(s) : s[i] \in Terminal
CloseCalls(r) == Count(wlog[r], CLOSE)
TaskEnded(r) == settled[r] # "pending"
\* the task ran to its end and the client never cancelled
Completed(r) == TaskEnded(r) /\ stream[r] = "closed"

\* C1: no heartbeat frame follows a terminal frame on the output stream, and the
\* completion flag is true whenever a terminal frame is being or has been written.
NoHeartbeatAfterTerminal ==
  \A r \in Req :
    /\ \A i, j \in 1..Len(out[r]) :
         (i < j /\ out[r][i] \in Terminal) => out[r][j] # HEARTBEAT
    /\ pc[r] \in WriteSites \cup AckSites => flag[r]
    /\ HasTerminal(out[r]) => flag[r]

HeartbeatThenTerminal ==
  \E r \in Req :
    /\ Len(out[r]) >= 3
    /\ out[r][1] = HEARTBEAT
    /\ out[r][Len(out[r]) - 1] = PAYLOAD
    /\ Last(out[r]) = DONE

\* C2: a request that completes without cancellation has exactly one done-marker
\* on its output stream, and it is the last frame.
DoneMarkerOnceAndLast ==
  \A r \in Req :
    Completed(r) =>
      /\ Count(out[r], DONE) = 1
      /\ Last(out[r]) = DONE

\* C3: once an exception has been caught, the task has the flag set and the timer
\* stopped, and its calls on the writer end with the internal-error frame, the
\* done-marker and the close, in that order.
ExceptionTerminalSequence ==
  \A r \in Req :
    (failed[r] /\ TaskEnded(r)) =>
      /\ flag[r] /\ ~timerArmed[r]
      /\ Len(wlog[r]) >= 3
      /\ SubSeq(wlog[r], Len(wlog[r]) - 2, Len(wlog[r])) = <<ERR_INTERNAL, DONE, CLOSE>>

\* the relayed upstream payload: the wrapped JSON body, or the event-stream body
\* (its chunks; with an empty body, the relay that reached end-of-body)
RelayEnded(r) ==
  /\ Has(out[r], DONE)
  /\ ~Has(out[r], ERR_UPSTREAM)
  /\ ~Has(out[r], PAYLOAD)
PayloadWritten(r) == Has(out[r], PAYLOAD) \/ Has(out[r], CHUNK) \/ RelayEnded(r)
ErrorFrames(r) == Count(out[r], ERR_UPSTREAM) + Count(out[r], ERR_INTERNAL)

\* C4: a request that completes without cancellation has on its output stream either
\* the relayed payload or exactly one error frame, never both and never neither.
OnePayloadOrError ==
  \A r \in Req :
    Completed(r) =>
      /\ PayloadWritten(r) \/ ErrorFrames(r) = 1
      /\ ~(PayloadWritten(r) /\ ErrorFrames(r) > 0)
      /\ ErrorFrames(r) <= 1

\* C5: close is called at most once, exactly once by the time the task ends; once it
\* has been called it is the task's last call on the writer, no heartbeat write can
\* be attempted, nothing more reaches the stream, and a closed or cancelled stream
\* never becomes open again.
CloseOnceNothingAfter ==
  /\ [](\A r \in Req :
          /\ CloseCalls(r) <= 1
          /\ TaskEnded(r) => CloseCalls(r) = 1
          /\ CloseCalls(r) = 1 =>
               /\ Last(wlog[r]) = CLOSE
               /\ ~(timerArmed[r] /\ ~flag[r])
               /\ stream[r] # "open")
  /\ [][\A r \in Req :
          /\ CloseCalls(r) = 1 => (out'[r] = out[r] /\ wlog'[r] = wlog[r])
          /\ stream[r] \in {"closed", "cancelled"} => stream'[r] = stream[r]]_vars

ClosedOnEveryPath ==
  /\ \E r \in Req : TaskEnded(r) /\ stream[r] = "closed" /\ ~failed[r]
  /\ \E r \in Req : TaskEnded(r) /\ stream[r] = "closed" /\ failed[r] /\ ~resolved[r]
                      /\ Has(out[r], HEARTBEAT)

\* C6: under fairness of the task's steps, close is eventually called for every
\* adapted request (which requests are adapted is fixed by their inputs).
CloseEventuallyCalled == \A r \in Req : Adapted(r) ~> (CloseCalls(r) = 1)

CloseAfterCatchWriteFailed ==
  \E r \in Req :
    /\ thrown[r]
    /\ Has(wlog[r], ERR_INTERNAL) /\ ~Has(out[r], ERR_INTERNAL)
    /\ CloseCalls(r) = 1

\* C7: once the client has cancelled, the task passes no further frame to write.
NoWriteAfterCancel ==
  [][\A r \in Req :
       stream[r] = "cancelled" =>
         (wlog'[r] = wlog[r] \/ wlog'[r] = Append(wlog[r], CLOSE))]_vars

\* C8: the task's promise never rejects.
TaskNeverRejects == \A r \in Req : settled[r] # "rejected"

\* C9: from the step of the cancellation on, the flag is true and the timer is
\* stopped, and no heartbeat frame is added to the output stream.
CancelStopsHeartbeat ==
  /\ [](\A r \in Req : stream[r] = "cancelled" => (flag[r] /\ ~timerArmed[r]))
  /\ [][\A r \in Req : stream[r] = "cancelled" => out'[r] = out[r]]_vars

CancelledMidFlight ==
  \E r \in Req :
    /\ stream[r] = "cancelled"
    /\ Has(out[r], HEARTBEAT)
    /\ TaskEnded(r)

\* C10: the response is returned before the upstream call settles, hence before any
\* terminal frame is on the output stream.
ResponseBeforeUpstream ==
  \A r \in Req :
    Adapted(r) =>
      /\ resolved[r] => hpc[r] = "returned"
      /\ HasTerminal(out[r]) => hpc[r] = "returned"

ReturnedThenResolved ==
  \E r \in Req :
    /\ hpc[r] = "returned"
    /\ calls[r] = 1
    /\ resolved[r]
    /\ HasTerminal(out[r])

\* n heartbeat frames
Heartbeats(n) == [i \in 1..n |-> HEARTBEAT]
\* the output stream holds zero or more heartbeat frames, then exactly the frames of tail
HeartbeatsThen(r, tail) ==
  \E n \in 0..Len(out[r]) : out[r] = Heartbeats(n) \o tail

\* C11 as claimed: a completed, uncancelled request whose upstream call returned a
\* non-2xx status shows heartbeats, then the upstream error frame, then the
\* done-marker, and made one upstream call.
NonOkErrorSequence ==
  \A r \in Req :
    (Completed(r) /\ result[r] = "non2xx") =>
      /\ HeartbeatsThen(r, <<ERR_UPSTREAM, DONE>>)
      /\ calls[r] = 1

\* C11 amended: the same, when the error body was read (the catch block was not
\* entered).
NonOkErrorSequenceWhenBodyRead ==
  \A r \in Req :
    (Completed(r) /\ result[r] = "non2xx" /\ ~failed[r]) =>
      /\ HeartbeatsThen(r, <<ERR_UPSTREAM, DONE>>)
      /\ calls[r] = 1

NonOkAfterHeartbeat ==
  \E r \in Req :
    /\ Completed(r)
    /\ result[r] = "non2xx"
    /\ ~failed[r]
    /\ Has(out[r], HEARTBEAT)

\* C12: a completed, uncancelled request whose upstream call returned a 2xx
\* non-event-stream response with a parseable body shows heartbeats, then one
\* payload frame, then one done-marker.
JsonPayloadSequence ==
  \A r \in Req :
    (Completed(r) /\ result[r] = "json" /\ ~failed[r]) =>
      HeartbeatsThen(r, <<PAYLOAD, DONE>>)

JsonAfterEveryTick ==
  /\ \E r \in Req :
       /\ Completed(r) /\ result[r] = "json" /\ ~failed[r]
       /\ Count(out[r], HEARTBEAT) = MaxTicks
  /\ \E r \in Req :
       /\ Completed(r) /\ result[r] = "json" /\ ~failed[r]
       /\ Count(out[r], HEARTBEAT) = 0

\* which handler has taken the request, read off the state
Handler(r) ==
  CASE hpc[r] = "received" -> "none"
    [] hpc[r] = "preflight" -> "preflight"
    [] hpc[r] \in {"proxying", "forwarded", "threw"} -> "proxy"
    [] OTHER -> "adapter"

\* C13: a handled OPTIONS request got the 204 response and no upstream call; another
\* request is with the stream adapter exactly when keepalive is enabled and its path
\* ends with the streaming suffix, else with the proxy; a request not with the adapter
\* has no stream, no timer and no heartbeat frame.
RouterDispatch ==
  \A r \in Req :
    /\ hpc[r] # "received" =>
         /\ method[r] = "OPTIONS" => (Handler(r) = "preflight" /\ calls[r] = 0)
         /\ method[r] # "OPTIONS" =>
              /\ Handler(r) = "adapter" <=>
                   (KEEPALIVE_ENABLED /\ path[r][Len(path[r])] = STREAM_OP)
              /\ Handler(r) # "adapter" => Handler(r) = "proxy"
    /\ Handler(r) # "adapter" =>
         (out[r] = <<>> /\ stream[r] = "none" /\ ~timerArmed[r] /\ pc[r] = "idle")

StreamingPathProxied ==
  \E r \in Req :
    /\ method[r] # "OPTIONS"
    /\ path[r][Len(path[r])] = STREAM_OP
    /\ ~KEEPALIVE_ENABLED
    /\ hpc[r] = "forwarded"
    /\ \E q \in Req : hpc[q] = "preflight"

\* C15: the flag is false when the stream is opened, never goes from true to false,
\* and is true once the upstream call of the task has settled, the catch block has
\* been entered or the client has cancelled.
FlagMonotonic ==
  /\ [](\A r \in Req :
          /\ stream[r] = "none" => ~flag[r]
          /\ (Adapted(r) /\ resolved[r]) => flag[r]
          /\ failed[r] => flag[r]
          /\ stream[r] = "cancelled" => flag[r])
  /\ [][\A r \in Req :
          /\ (stream[r] = "none" /\ stream'[r] = "open") => ~flag'[r]
          /\ flag[r] => flag'[r]]_vars

FlagSetByCancelThenCompletion ==
  \E r \in Req :
    /\ stream[r] = "cancelled"
    /\ result[r] = "json"
    /\ failed[r]
    /\ flag[r]

\* C16: once the task has called close, the timer of the request is stopped.
TimerStoppedAtClose ==
  \A r \in Req : CloseCalls(r) >= 1 => ~timerArmed[r]

ClosedAfterEarlyException ==
  /\ \E r \in Req :
       /\ CloseCalls(r) = 1 /\ stream[r] = "closed"
       /\ failed[r] /\ calls[r] = 0
       /\ Has(out[r], HEARTBEAT)
  /\ \E r \in Req :
       /\ CloseCalls(r) = 1 /\ stream[r] = "closed"
       /\ result[r] = "non2xx" /\ ~failed[r]

\* C17: no request has more than one upstream call issued for it.
AtMostOneUpstreamCall ==
  \A r \in Req : calls[r] <= 1

EndedAfterFailures ==
  /\ \E r \in Req : TaskEnded(r) /\ result[r] = "reject" /\ calls[r] = 1
  /\ \E r \in Req : TaskEnded(r) /\ result[r] = "json" /\ failed[r] /\ calls[r] = 1

\* C19: every step leaves the flag, the timer, the stream and the frames of all
\* requests but one as they are.
RequestsShareNothing ==
  [][\E q \in Req :
       \A r \in Req \ {q} :
         /\ flag'[r] = flag[r]
         /\ timerArmed'[r] = timerArmed[r]
         /\ stream'[r] = stream[r]
         /\ out'[r] = out[r]
         /\ wlog'[r] = wlog[r]]_vars

OneEndedOtherHeartbeating ==
  \E r, q \in Req :
    /\ r # q
    /\ TaskEnded(r)
    /\ stream[q] = "open" /\ timerArmed[q] /\ ~flag[q]
    /\ Has(out[q], HEARTBEAT)

\* the comma-free stretches of v between commas (or the ends), as index pairs
Stretches(v) ==
  {ij \in (1..(Len(v) + 1)) \X (0..Len(v)) :
     /\ ij[1] <= ij[2] + 1
     /\ ij[1] = 1 \/ v[ij[1] - 1] = ","
     /\ ij[2] = Len(v) \/ v[ij[2] + 1] = ","
     /\ \A k \in ij[1]..ij[2] : v[k] # ","}
\* the non-empty tokens: a stretch without the blanks at its two ends
Tokens(v) ==
  {SubSeq(v, ab[1], ab[2]) : ab \in {ab \in (1..Len(v)) \X (1..Len(v)) :
     /\ ab[1] <= ab[2]
     /\ v[ab[1]] # " " /\ v[ab[2]] # " "
     /\ \E ij \in Stretches(v) :
          /\ ij[1] <= ab[1] /\ ab[2] <= ij[2]
          /\ \A k \in (ij[1]..(ab[1] - 1)) \cup ((ab[2] + 1)..ij[2]) : v[k] = " "}}

\* C14: an absent or comma-free key is forwarded as it is; a key with a comma is
\* forwarded as one of its trimmed non-empty tokens, each of them a possible outcome,
\* or as it is when it has no such token.
KeySelection ==
  /\ upc = "prepared" =>
       IF ~urlKey.present \/ ~IncludesComma(urlKey.val) \/ Tokens(urlKey.val) = {}
         THEN targetKey = urlKey
         ELSE targetKey.present /\ targetKey.val \in Tokens(urlKey.val)
  /\ (upc = "rewritten" /\ urlKey.present /\ IncludesComma(urlKey.val)) =>
       \A t \in Tokens(urlKey.val) :
         \E rnd \in Rand : SelectKey(urlKey, rnd) = [present |-> TRUE, val |-> t]

TrimmedTokenForwarded ==
  /\ upc = "prepared"
  /\ urlKey.val = <<" ", "a", ",", "a", "a">>
  /\ targetKey.val = <<"a", "a">>

\* C18: the outbound path is the inbound path with its trailing streaming suffix
\* replaced by the non-streaming one, everything before it unchanged.
TrailingSuffixReplaced ==
  upc \in {"rewritten", "prepared"} =>
    targetPath = SubSeq(urlPath, 1, Len(urlPath) - 1) \o <<GENERATE_OP>>

====
